---- MODULE Spec2Model ----
(***************************************************************************)
(* A model of app.py, a Flask calorie tracker: the metrics calculator      *)
(* (calculate_metrics, exercise_recommendations), the unit conversions,    *)
(* and the request handlers with the stored users, profiles and entries.   *)
(*                                                                         *)
(* Numbers.  A Python float that holds a length (cm) or a mass (kg) is     *)
(* modelled by the integer 10*x (one decimal digit, exact arithmetic on    *)
(* it), and the float +inf by the value Inf.  BMR is carried in eighths    *)
(* (bmr8 = 8*BMR), which is exact for these inputs.  round() is Python 3's *)
(* round-half-to-even and int() truncates toward zero.                     *)
(* Floats too small for their square to be non-zero are not represented.   *)
(* An optional value is a sequence: None is << >>, a present v is <<v>>.   *)
(*                                                                         *)
(* Requests.  Each client sends one request at a time.  register is three  *)
(* steps, one per database access (the query of line 185, the commits of   *)
(* lines 198 and 202), so that the requests of two clients interleave; the *)
(* other handlers make at most one commit and are one step each.           *)
(***************************************************************************)
EXTENDS Integers, Sequences, FiniteSets, TLC

VARIABLES
    users,      \* the user table, in insertion order (id = index)
    profiles,   \* the profile table
    entries,    \* the entry table
    session,    \* per client, the logged-in user id (0: anonymous)
    req,        \* per client, the register request in flight
    updated,    \* ids of the users whose profile a POST /profile has committed
    last,       \* the request step handled last and its response; user is
                \* current_user.id where add_entry and admin_required read it
    arg,        \* the profile handed to the calculator
    out         \* what the calculator returned

vars == <<users, profiles, entries, session, req, updated, last, arg, out>>

-----------------------------------------------------------------------------
(* Python values *)

None == << >>

Some(v) == <<v>>

\* float('inf'), as float() parses it from a form field
Inf == 1000000

\* bool(x) of an optional number
TruthyNum(x) == x # None /\ x[1] # 0

\* bool(x) of an optional string
TruthyStr(x) == x # None /\ x[1] # ""

\* round(n/d), d > 0: nearest integer, ties to the even one
RoundHalfEven(n, d) ==
    LET q == n \div d
        r == n % d
    IN  IF 2 * r < d THEN q
        ELSE IF 2 * r > d THEN q + 1
        ELSE IF q % 2 = 0 THEN q ELSE q + 1

\* int(n/d), d > 0: truncation toward zero
Trunc(n, d) == IF n >= 0 THEN n \div d ELSE -((-n) \div d)

Max(a, b) == IF a >= b THEN a ELSE b

\* str.upper() on the strings of the model
Upper(s) ==
    CASE s = "m" -> "M"
      [] s = "f" -> "F"
      [] OTHER -> s

\* str.lower() on the strings of the model
Lower(s) ==
    CASE s = "LOSE" -> "lose"
      [] s = "Lose" -> "lose"
      [] s = "A@X" -> "a@x"
      [] OTHER -> s

\* str.strip() on the strings of the model
Strip(s) ==
    CASE s = " A@X " -> "A@X"
      [] s = " " -> ""
      [] OTHER -> s

-----------------------------------------------------------------------------
(* Helpers & calculations *)

\* the multipliers, in thousandths
ACTIVITY_MULTIPLIERS ==
    [a \in {"sedentary", "lightly_active", "moderately_active",
            "very_active", "extra_active"} |->
        CASE a = "sedentary" -> 1200
          [] a = "lightly_active" -> 1375
          [] a = "moderately_active" -> 1550
          [] a = "very_active" -> 1725
          [] a = "extra_active" -> 1900]

\* the default of ACTIVITY_MULTIPLIERS.get(..., 1.55), in thousandths
DefaultMultiplier == 1550

\* lb (whole pounds) to tenths of a kilogram
lbs_to_kg(lbs) ==
    IF lbs = Inf THEN Inf ELSE RoundHalfEven(lbs * 1000000, 220462)

\* inches to tenths of a centimetre
inches_to_cm(inches) ==
    IF inches = Inf THEN Inf ELSE RoundHalfEven(inches * 254, 10)

ft_in_to_cm(ft, inch) ==
    IF ft = Inf \/ inch = Inf THEN Inf ELSE inches_to_cm(ft * 12 + inch)

Metrics(bmi, bmr, tdee, target) ==
    [raised |-> "", bmi |-> bmi, bmr |-> bmr, tdee |-> tdee,
     target_calories |-> target]

\* the call did not return: int(round(x)) of an infinite x
Raised == [raised |-> "OverflowError", bmi |-> None, bmr |-> None,
           tdee |-> None, target_calories |-> None]

\* the guard of line 106 on a present profile
Complete(p) ==
    /\ TruthyNum(p.height_in)
    /\ TruthyNum(p.weight_lb)
    /\ TruthyNum(p.age)
    /\ TruthyStr(p.sex)

\* 8 * BMR of line 118, for h and w in tenths
Bmr8(p) ==
    LET s == Upper(p.sex[1])
    IN  8 * p.weight_lb[1] + 5 * p.height_in[1] - 40 * p.age[1]
          + 8 * (IF s = "M" THEN 5 ELSE -161)

\* Mult with an unknown activity falling back to the sedentary multiplier
Mult_DefaultSedentary(p) ==
    LET key == IF TruthyStr(p.activity) THEN p.activity[1]
               ELSE "moderately_active"
    IN  IF key \in DOMAIN ACTIVITY_MULTIPLIERS
        THEN ACTIVITY_MULTIPLIERS[key] ELSE ACTIVITY_MULTIPLIERS["sedentary"]

\* the multiplier of line 121, in thousandths
Mult(p) ==
    LET key == IF TruthyStr(p.activity) THEN p.activity[1]
               ELSE "moderately_active"
    IN  IF key \in DOMAIN ACTIVITY_MULTIPLIERS
        THEN ACTIVITY_MULTIPLIERS[key] ELSE DefaultMultiplier

\* goal == "lose" of line 125
GoalIsLose(p) ==
    Lower(IF TruthyStr(p.goal) THEN p.goal[1] ELSE "maintain") = "lose"

\* Tdee8000 with BMR rounded before the multiplication
Tdee8000_RoundFirst(p) == 8 * RoundHalfEven(Bmr8(p), 8) * Mult(p)

\* 8000 * TDEE of line 122
Tdee8000(p) == Bmr8(p) * Mult(p)

\* the target of lines 125-128
Target(p) ==
    IF GoalIsLose(p)
    THEN Max(RoundHalfEven(Tdee8000(p) - 500 * 8000, 8000), Trunc(Bmr8(p), 8))
    ELSE RoundHalfEven(Tdee8000(p), 8000)

\* 10 * BMI of line 115
Bmi10(p) ==
    RoundHalfEven(p.weight_lb[1] * 1000000, p.height_in[1] * p.height_in[1])

\* profile is an optional profile record
calculate_metrics(profile) ==
    IF profile = None \/ ~Complete(profile[1])
    THEN Metrics(None, None, None, None)
    ELSE LET p == profile[1]
         IN  IF p.height_in[1] = Inf \/ p.weight_lb[1] = Inf
             THEN Raised
             ELSE Metrics(Some(Bmi10(p)),
                          Some(RoundHalfEven(Bmr8(p), 8)),
                          Some(RoundHalfEven(Tdee8000(p), 8000)),
                          Some(Target(p)))

base ==
    << [name |-> "Brisk Walking", intensity |-> "Moderate", duration_min |-> 30, type |-> "cardio"],
       [name |-> "Jogging", intensity |-> "Heavy", duration_min |-> 20, type |-> "cardio"],
       [name |-> "Cycling (leisure)", intensity |-> "Low", duration_min |-> 30, type |-> "cardio"],
       [name |-> "Bodyweight Circuit", intensity |-> "Moderate", duration_min |-> 25, type |-> "strength"],
       [name |-> "Swimming (moderate)", intensity |-> "Moderate", duration_min |-> 25, type |-> "cardio"],
       [name |-> "Pilates/core", intensity |-> "Low", duration_min |-> 30, type |-> "mobility"] >>

\* LoseTypes with the mobility entries kept too
LoseTypes_All == {"cardio", "strength", "mobility"}

\* the types the "lose" branch keeps (line 147)
LoseTypes == {"cardio", "strength"}

\* y = x.copy(); y["duration_min"] += 10; y["note"] = ...
LoseEntry(x) ==
    [name |-> x.name, intensity |-> x.intensity,
     duration_min |-> x.duration_min + 10, type |-> x.type,
     note |-> "Fat-loss focus: try intervals."]

RECURSIVE LoseLoop(_, _)
\* the loop of lines 146-151 from index i on
LoseLoop(xs, i) ==
    IF i > Len(xs) THEN << >>
    ELSE (IF xs[i].type \in LoseTypes THEN <<LoseEntry(xs[i])>> ELSE << >>)
           \o LoseLoop(xs, i + 1)

\* met is in tenths
exercise_recommendations(profile) ==
    IF profile = None THEN << >>
    ELSE IF GoalIsLose(profile[1])
    THEN Append(LoseLoop(base, 1),
                [name |-> "Walk after meals", met |-> 33, duration_min |-> 10,
                 type |-> "habit", note |-> "Light post-meal walk 2-3x/day"])
    ELSE Append(base,
                [name |-> "Full-body strength 2x/week", met |-> 50,
                 duration_min |-> 40, type |-> "strength"])

-----------------------------------------------------------------------------
(* The state after db.create_all() on an empty database *)

\* the browsers (sessions) sending requests
Clients == {1, 2}

WebInit ==
    /\ users = << >>
    /\ profiles = << >>
    /\ entries = << >>
    /\ session = [c \in Clients |-> 0]
    /\ req = [c \in Clients |-> [pc |-> "idle", email |-> "", password |-> "", uid |-> 0]]
    /\ updated = {}
    /\ last = [route |-> "", step |-> "", user |-> 0, email |-> "",
               password |-> "", result |-> ""]

-----------------------------------------------------------------------------
(* The calculator on its own: every profile of CalcProfiles, one call *)

Heights == {None, Some(0), Some(1700), Some(1705), Some(Inf)}

Weights == {None, Some(0), Some(700), Some(Inf)}

Ages == {None, Some(0), Some(30)}

Sexes == {None, Some(""), Some("M"), Some("m"), Some("F")}

Activities == {None, Some(""), Some("sedentary"), Some("lightly_active"),
               Some("moderately_active"), Some("very_active"),
               Some("extra_active"), Some("Sedentary"), Some("couch")}

Goals == {None, Some(""), Some("lose"), Some("LOSE"), Some("maintain"), Some("gain")}

CalcProfiles ==
    [height_in : Heights, weight_lb : Weights, age : Ages, sex : Sexes,
     activity : Activities, goal : Goals]

Idle == [fn |-> "idle", metrics |-> Metrics(None, None, None, None), recs |-> << >>]

CalcInit ==
    /\ WebInit
    /\ arg \in {None} \cup {Some(p) : p \in CalcProfiles}
    /\ out = Idle

CallCalculateMetrics ==
    /\ out.fn = "idle"
    /\ out' = [fn |-> "calculate_metrics", metrics |-> calculate_metrics(arg),
               recs |-> << >>]
    /\ UNCHANGED <<users, profiles, entries, session, req, updated, last, arg>>

CallExerciseRecommendations ==
    /\ out.fn = "idle"
    /\ out' = [fn |-> "exercise_recommendations",
               metrics |-> Metrics(None, None, None, None),
               recs |-> exercise_recommendations(arg)]
    /\ UNCHANGED <<users, profiles, entries, session, req, updated, last, arg>>

CalcNext == CallCalculateMetrics \/ CallExerciseRecommendations

SpecCalc == CalcInit /\ [][CalcNext]_vars

-----------------------------------------------------------------------------
(* The stored tables and the request handlers *)

\* the bound on the entry table
MaxEntries == 2

\* os.getenv("ADMIN_EMAILS"), split and normalised (line 193)
ADMIN_EMAILS == {"a@x"}

\* dt.date.today().isoformat()
Today == "2024-01-02"

\* what the register and login forms send as email
EmailInputs == {"", " A@X ", "b@x"}

RegisterPasswords == {"", "pw"}

LoginPasswords == {"pw", "bad"}

\* the POST /profile forms; a blank numeric field is None
ProfileForms ==
    { [height_ft |-> Some(5), height_in |-> Some(7), weight_lb |-> Some(154),
       age |-> Some(30), sex |-> "m", activity |-> "sedentary", goal |-> "lose"],
      [height_ft |-> Some(1), height_in |-> Some(-12), weight_lb |-> None,
       age |-> None, sex |-> "f", activity |-> "", goal |-> ""],
      [height_ft |-> Some(5), height_in |-> None, weight_lb |-> Some(Inf),
       age |-> Some(30), sex |-> "m", activity |-> "", goal |-> ""] }

\* the POST /add forms
EntryForms ==
    { [date |-> "", calories_in |-> Some(300), calories_out |-> None,
       weight_lb |-> Some(154)],
      [date |-> "not-a-date", calories_in |-> None, calories_out |-> None,
       weight_lb |-> None] }

\* (x or "").strip().lower() of lines 180 and 212
Normalize(email) == Lower(Strip(email))

\* float(x or 0) and int(x or 0) of a form field
OrZero(x) == IF x = None THEN 0 ELSE x[1]

\* v or None
OrNone(v, falsy) == IF v = falsy THEN None ELSE Some(v)

\* User.check_password: the hash matches the password it was made from
check_password(user, password) == user.password_hash = password

\* User.query.filter_by(email=email).first(), as an optional user
UserByEmail(email) ==
    LET ids == {i \in 1..Len(users) : users[i].email = email}
    IN  IF ids = {} THEN None
        ELSE Some(users[CHOOSE i \in ids : \A j \in ids : i <= j])

\* current_user.profile (uselist=False), as an optional profile
ProfileOf(uid) ==
    LET ids == {i \in 1..Len(profiles) : profiles[i].user_id = uid}
    IN  IF ids = {} THEN None
        ELSE Some(profiles[CHOOSE i \in ids : \A j \in ids : i <= j])

\* Profile(user_id=...) with the column defaults of lines 49-55
NewProfile(uid) ==
    [user_id |-> uid, height_in |-> None, weight_lb |-> None, age |-> None,
     sex |-> None, activity |-> Some("moderately_active"),
     goal |-> Some("maintain")]

Response(route, step, user, email, password, result) ==
    [route |-> route, step |-> step, user |-> user, email |-> email,
     password |-> password, result |-> result]

NoReq == [pc |-> "idle", email |-> "", password |-> "", uid |-> 0]

\* lines 180-187: the form is read and checked
RegisterCheck(c, email, password) ==
    /\ req[c].pc = "idle"
    /\ LET e == Normalize(email)
       IN  IF e = "" \/ password = "" \/ UserByEmail(e) # None
           THEN /\ last' = Response("register", "check", 0, email,
                                    password, "redirect_register")
                /\ UNCHANGED req
           ELSE /\ req' = [req EXCEPT ![c] = [pc |-> "add_user", email |-> e,
                                              password |-> password, uid |-> 0]]
                /\ last' = Response("register", "check", 0, email,
                                    password, "pending")
    /\ UNCHANGED <<users, profiles, entries, session, updated, arg, out>>

\* the commit of line 198 with no unique index on email
RegisterCommitUser_NoUnique(c) ==
    /\ req[c].pc = "add_user"
    /\ users' = Append(users,
                       [id |-> Len(users) + 1, email |-> req[c].email,
                        password_hash |-> req[c].password,
                        is_admin |-> req[c].email \in ADMIN_EMAILS])
    /\ req' = [req EXCEPT ![c].pc = "add_profile", ![c].uid = Len(users) + 1]
    /\ last' = Response("register", "commit_user", 0, "", "",
                        "pending")
    /\ UNCHANGED <<profiles, entries, session, updated, arg, out>>

\* lines 189-198: the user row is committed; email is unique (line 30)
RegisterCommitUser(c) ==
    /\ req[c].pc = "add_user"
    /\ IF UserByEmail(req[c].email) # None
       THEN /\ req' = [req EXCEPT ![c] = NoReq]
            /\ last' = Response("register", "commit_user", 0, "", "",
                                "IntegrityError")
            /\ UNCHANGED users
       ELSE /\ users' = Append(users,
                               [id |-> Len(users) + 1, email |-> req[c].email,
                                password_hash |-> req[c].password,
                                is_admin |-> req[c].email \in ADMIN_EMAILS])
            /\ req' = [req EXCEPT ![c].pc = "add_profile",
                                  ![c].uid = Len(users) + 1]
            /\ last' = Response("register", "commit_user", 0, "", "",
                                "pending")
    /\ UNCHANGED <<profiles, entries, session, updated, arg, out>>

\* lines 200-206: the empty profile is committed and the user logged in
RegisterCommitProfile(c) ==
    /\ req[c].pc = "add_profile"
    /\ profiles' = Append(profiles, NewProfile(req[c].uid))
    /\ session' = [session EXCEPT ![c] = req[c].uid]
    /\ req' = [req EXCEPT ![c] = NoReq]
    /\ last' = Response("register", "commit_profile", 0, "", "",
                        "redirect_profile")
    /\ UNCHANGED <<users, entries, updated, arg, out>>

login(c, email, password) ==
    /\ req[c].pc = "idle"
    /\ LET user == UserByEmail(Normalize(email))
       IN  IF user = None \/ ~check_password(user[1], password)
           THEN /\ last' = Response("login", "", 0, "", "",
                                    "redirect_login")
                /\ UNCHANGED session
           ELSE /\ session' = [session EXCEPT ![c] = user[1].id]
                /\ last' = Response("login", "", 0, "", "",
                                    "redirect_dashboard")
    /\ UNCHANGED <<users, profiles, entries, req, updated, arg, out>>

logout(c) ==
    /\ req[c].pc = "idle"
    /\ IF session[c] = 0
       THEN /\ last' = Response("logout", "", 0, "", "", "redirect_login")
            /\ UNCHANGED session
       ELSE /\ session' = [session EXCEPT ![c] = 0]
            /\ last' = Response("logout", "", 0, "", "", "redirect_index")
    /\ UNCHANGED <<users, profiles, entries, req, updated, arg, out>>

\* lines 235-244: the profile row after the form's assignments
ProfileFromForm(p, form) ==
    LET ft == OrZero(form.height_ft)
        inch == OrZero(form.height_in)
        lb == OrZero(form.weight_lb)
    IN  [user_id |-> p.user_id,
         height_in |-> IF ft # 0 \/ inch # 0 THEN Some(ft_in_to_cm(ft, inch))
                       ELSE None,
         weight_lb |-> IF lb # 0 THEN Some(lbs_to_kg(lb)) ELSE None,
         age |-> OrNone(OrZero(form.age), 0),
         sex |-> OrNone(Upper(form.sex), ""),
         activity |-> Some(IF form.activity = "" THEN "moderately_active"
                           ELSE form.activity),
         goal |-> Some(IF form.goal = "" THEN "maintain" ELSE form.goal)]

\* POST /profile
profile_post(c, form) ==
    /\ req[c].pc = "idle"
    /\ IF session[c] = 0
       THEN /\ last' = Response("profile_post", "", 0, "", "", "redirect_login")
            /\ UNCHANGED <<profiles, updated>>
       ELSE IF ProfileOf(session[c]) = None
       THEN /\ last' = Response("profile_post", "", 0, "", "",
                                "AttributeError")
            /\ UNCHANGED <<profiles, updated>>
       ELSE /\ profiles' =
                 [i \in 1..Len(profiles) |->
                    IF profiles[i] = ProfileOf(session[c])[1]
                    THEN ProfileFromForm(profiles[i], form) ELSE profiles[i]]
            /\ updated' = updated \cup {session[c]}
            /\ last' = Response("profile_post", "", 0, "", "",
                                "redirect_dashboard")
    /\ UNCHANGED <<users, entries, session, req, arg, out>>

\* a profile row without its keys, as the calculator reads it
Fields(p) ==
    IF p = None THEN None
    ELSE Some([height_in |-> p[1].height_in, weight_lb |-> p[1].weight_lb,
               age |-> p[1].age, sex |-> p[1].sex,
               activity |-> p[1].activity, goal |-> p[1].goal])

\* GET /dashboard: calculate_metrics(p) either returns, and the page is
\* rendered with the entries and exercise_recommendations(p), which only read,
\* or raises
dashboard(c) ==
    /\ req[c].pc = "idle"
    /\ IF session[c] = 0
       THEN last' = Response("dashboard", "", 0, "", "", "redirect_login")
       ELSE IF calculate_metrics(Fields(ProfileOf(session[c]))).raised # ""
       THEN last' = Response("dashboard", "", 0, "", "", "OverflowError")
       ELSE last' = Response("dashboard", "", 0, "", "", "page")
    /\ UNCHANGED <<users, profiles, entries, session, req, updated, arg, out>>

\* add_entry keeping one entry per user and date: a second one replaces it
add_entry_Upsert(c, form) ==
    /\ req[c].pc = "idle"
    /\ Len(entries) < MaxEntries
    /\ IF session[c] = 0
       THEN /\ last' = Response("add_entry", "", 0, "", "", "redirect_login")
            /\ UNCHANGED entries
       ELSE IF form.date \notin {"", Today}
       THEN /\ last' = Response("add_entry", "", session[c], "", "", "ValueError")
            /\ UNCHANGED entries
       ELSE /\ LET e == [user_id |-> session[c],
                         date |-> IF form.date = "" THEN Today ELSE form.date,
                         calories_in |-> OrZero(form.calories_in),
                         calories_out |-> OrZero(form.calories_out),
                         weight_lb |-> IF OrZero(form.weight_lb) # 0
                                       THEN Some(lbs_to_kg(OrZero(form.weight_lb)))
                                       ELSE None,
                         notes |-> None]
                    same(x) == x.user_id = e.user_id /\ x.date = e.date
                    keep(x) == ~same(x)
               IN  entries' = Append(SelectSeq(entries, keep), e)
            /\ last' = Response("add_entry", "", session[c], "", "",
                                "redirect_dashboard")
    /\ UNCHANGED <<users, profiles, session, req, updated, arg, out>>

\* POST /add
add_entry(c, form) ==
    /\ req[c].pc = "idle"
    /\ Len(entries) < MaxEntries
    /\ IF session[c] = 0
       THEN /\ last' = Response("add_entry", "", 0, "", "", "redirect_login")
            /\ UNCHANGED entries
       ELSE IF form.date \notin {"", Today}
       THEN /\ last' = Response("add_entry", "", session[c], "", "", "ValueError")
            /\ UNCHANGED entries
       ELSE /\ entries' =
                 Append(entries,
                        [user_id |-> session[c],
                         date |-> IF form.date = "" THEN Today ELSE form.date,
                         calories_in |-> OrZero(form.calories_in),
                         calories_out |-> OrZero(form.calories_out),
                         weight_lb |-> IF OrZero(form.weight_lb) # 0
                                       THEN Some(lbs_to_kg(OrZero(form.weight_lb)))
                                       ELSE None,
                         notes |-> None])
            /\ last' = Response("add_entry", "", session[c], "", "",
                                "redirect_dashboard")
    /\ UNCHANGED <<users, profiles, session, req, updated, arg, out>>

\* admin_panel behind login_required only
admin_panel_LoginOnly(c) ==
    /\ req[c].pc = "idle"
    /\ IF session[c] = 0
       THEN last' = Response("admin_panel", "", 0, "", "", "redirect_login")
       ELSE last' = Response("admin_panel", "", session[c], "", "", "listing")
    /\ UNCHANGED <<users, profiles, entries, session, req, updated, arg, out>>

\* GET /admin behind admin_required
admin_panel(c) ==
    /\ req[c].pc = "idle"
    /\ IF session[c] = 0
       THEN last' = Response("admin_panel", "", 0, "", "", "redirect_login")
       ELSE IF ~users[session[c]].is_admin
       THEN last' = Response("admin_panel", "", session[c], "", "",
                             "redirect_dashboard")
       ELSE last' = Response("admin_panel", "", session[c], "", "", "listing")
    /\ UNCHANGED <<users, profiles, entries, session, req, updated, arg, out>>

Init ==
    /\ WebInit
    /\ arg = None
    /\ out = Idle

Next ==
    \E c \in Clients :
        \/ \E e \in EmailInputs, pw \in RegisterPasswords : RegisterCheck(c, e, pw)
        \/ RegisterCommitUser(c)
        \/ RegisterCommitProfile(c)
        \/ \E e \in EmailInputs, pw \in LoginPasswords : login(c, e, pw)
        \/ logout(c)
        \/ \E f \in ProfileForms : profile_post(c, f)
        \/ dashboard(c)
        \/ \E f \in EntryForms : add_entry(c, f)
        \/ admin_panel(c)

Spec == Init /\ [][Next]_vars

-----------------------------------------------------------------------------
(* Properties of the calculator, under SpecCalc *)

Called == out.fn = "calculate_metrics"

Returned == Called /\ out.metrics.raised = ""

CompleteArg == arg # None /\ Complete(arg[1])

AllUnknown ==
    /\ out.metrics.bmi = None
    /\ out.metrics.bmr = None
    /\ out.metrics.tdee = None
    /\ out.metrics.target_calories = None

AllKnown ==
    /\ out.metrics.bmi # None
    /\ out.metrics.bmr # None
    /\ out.metrics.tdee # None
    /\ out.metrics.target_calories # None

\* C1: for a complete profile with goal "lose" (any letter case) the returned
\* target_calories is max(round(TDEE - 500), round(BMR)) and is never less than
\* the returned bmr field.
C1_TargetNotBelowBmr ==
    (Returned /\ CompleteArg /\ GoalIsLose(arg[1])) =>
        /\ out.metrics.target_calories[1] =
             Max(RoundHalfEven(Bmr8(arg[1]) * Mult(arg[1]) - 500 * 8000, 8000),
                 RoundHalfEven(Bmr8(arg[1]), 8))
        /\ out.metrics.target_calories[1] >= out.metrics.bmr[1]

\* C2: calculate_metrics never raises; it returns all four fields unknown
\* exactly when the profile is absent or one of height, weight, age, sex is
\* missing or zero, and all four known otherwise.
C2_UnknownIffIncomplete ==
    Called =>
        /\ out.metrics.raised = ""
        /\ AllUnknown <=> ~CompleteArg
        /\ AllKnown <=> CompleteArg

ExampleProfile ==
    [height_in |-> Some(1700), weight_lb |-> Some(700), age |-> Some(30),
     sex |-> Some("M"), activity |-> Some("moderately_active"),
     goal |-> Some("maintain")]

\* C3 as stated: tdee is the returned (rounded) bmr times the multiplier,
\* rounded; the 170 cm / 70 kg / 30 / M / moderately_active / maintain profile
\* gives bmr 1674, tdee 2595 and target_calories = tdee.
C3_RoundBmrFirst ==
    (Returned /\ CompleteArg) =>
        /\ out.metrics.tdee[1] =
             RoundHalfEven(out.metrics.bmr[1] * Mult(arg[1]), 1000)
        /\ arg = Some(ExampleProfile) =>
             /\ out.metrics.bmr[1] = 1674
             /\ out.metrics.tdee[1] = 2595
             /\ out.metrics.target_calories[1] = out.metrics.tdee[1]

\* C3 amended: bmr is the rounded BMR and tdee is the unrounded BMR times the
\* multiplier, rounded once; the example profile gives bmr 1618, tdee 2507 and
\* target_calories 2507.
C3_RoundOnce ==
    (Returned /\ CompleteArg) =>
        /\ out.metrics.bmr[1] = RoundHalfEven(Bmr8(arg[1]), 8)
        /\ out.metrics.tdee[1] =
             RoundHalfEven(Bmr8(arg[1]) * Mult(arg[1]), 8000)
        /\ arg = Some(ExampleProfile) =>
             /\ out.metrics.bmr[1] = 1618
             /\ out.metrics.tdee[1] = 2507
             /\ out.metrics.target_calories[1] = 2507

C3_Witness == Returned /\ arg = Some(ExampleProfile)

RecTypes == {out.recs[i].type : i \in 1..Len(out.recs)}

\* C4: exercise_recommendations returns the empty list for an absent profile;
\* for goal "lose" the five cardio/strength entries of the catalog in order,
\* each 10 minutes longer and with the interval note, then one habit entry and
\* no mobility entry; for any other goal the six catalog entries unchanged,
\* then one strength entry.
C4_Recommendations ==
    out.fn = "exercise_recommendations" =>
        IF arg = None THEN out.recs = << >>
        ELSE IF GoalIsLose(arg[1])
        THEN /\ Len(out.recs) = 6
             /\ [i \in 1..5 |-> out.recs[i].name] =
                  <<"Brisk Walking", "Jogging", "Cycling (leisure)",
                    "Bodyweight Circuit", "Swimming (moderate)">>
             /\ [i \in 1..5 |-> out.recs[i].duration_min] = <<40, 30, 40, 35, 35>>
             /\ \A i \in 1..5 :
                  /\ out.recs[i].type \in {"cardio", "strength"}
                  /\ out.recs[i].note = "Fat-loss focus: try intervals."
             /\ out.recs[6].type = "habit"
             /\ "mobility" \notin RecTypes
        ELSE /\ Len(out.recs) = 7
             /\ SubSeq(out.recs, 1, 6) = base
             /\ out.recs[7].type = "strength"

C4_Witness ==
    /\ out.fn = "exercise_recommendations"
    /\ arg # None
    /\ GoalIsLose(arg[1])
    /\ Len(out.recs) = 6

UnknownActivity ==
    \/ arg[1].activity = None
    \/ arg[1].activity[1] \notin DOMAIN ACTIVITY_MULTIPLIERS

\* C5: for a complete profile whose activity is absent or none of the five
\* levels, the multiplier is 1.55: the outcome is that of the same profile
\* with activity moderately_active.
C5_DefaultMultiplier ==
    (Called /\ CompleteArg /\ UnknownActivity) =>
        /\ out.metrics =
             calculate_metrics(
                 Some([arg[1] EXCEPT !.activity = Some("moderately_active")]))
        /\ out.metrics.raised = "" =>
             out.metrics.tdee[1] = RoundHalfEven(Bmr8(arg[1]) * 1550, 8000)

C5_Witness ==
    /\ Returned
    /\ CompleteArg
    /\ arg[1].activity = Some("couch")
    /\ out.metrics.tdee # None

-----------------------------------------------------------------------------
(* Properties of the stored tables and the handlers, under Spec *)

ProfilesOf(uid) == {j \in 1..Len(profiles) : profiles[j].user_id = uid}

\* C6: every stored user owns exactly one profile, with height, weight, age
\* and sex unset until the user's first profile update.
C6_OneProfilePerUser ==
    \A i \in 1..Len(users) :
        /\ Cardinality(ProfilesOf(i)) = 1
        /\ i \notin updated =>
             \A j \in ProfilesOf(i) :
                 /\ profiles[j].height_in = None
                 /\ profiles[j].weight_lb = None
                 /\ profiles[j].age = None
                 /\ profiles[j].sex = None

\* C7: a step never changes or removes a stored entry and adds at most one;
\* only add_entry adds one, and a successful add_entry adds exactly one, owned
\* by the logged-in user, whatever dates that user already has.
C7_AppendOnly ==
    [][ /\ Len(entries') \in {Len(entries), Len(entries) + 1}
        /\ SubSeq(entries', 1, Len(entries)) = entries
        /\ entries' # entries => last'.route = "add_entry"
        /\ (last'.route = "add_entry" /\ last'.result = "redirect_dashboard") =>
             /\ Len(entries') = Len(entries) + 1
             /\ last'.user # 0
             /\ \E c \in Clients : session[c] = last'.user
             /\ entries'[Len(entries')].user_id = last'.user ]_vars

C7_Witness ==
    /\ Len(entries) >= 2
    /\ entries[1].user_id = entries[2].user_id
    /\ entries[1].date = entries[2].date
    /\ last.route = "add_entry"
    /\ last.result = "redirect_dashboard"

\* C8: the profile handler never stores a height of exactly zero: a stored
\* height is absent or non-zero.
C8_HeightNeverZero ==
    \A j \in 1..Len(profiles) :
        profiles[j].user_id \in updated => profiles[j].height_in # Some(0)

AdminGate ==
    last.route = "admin_panel" =>
        /\ last.result = "listing" =>
             (last.user # 0 /\ users[last.user].is_admin)
        /\ (last.user # 0 /\ ~users[last.user].is_admin) =>
             last.result = "redirect_dashboard"

\* C9: the admin listing is produced only for a logged-in user whose is_admin
\* is true, a logged-in non-admin is redirected to the dashboard; is_admin is
\* set at registration, from ADMIN_EMAILS, and no step changes it afterwards.
C9_AdminOnly ==
    [][ /\ AdminGate'
        /\ Len(users') >= Len(users)
        /\ \A i \in 1..Len(users) : users'[i].is_admin = users[i].is_admin
        /\ \A i \in (Len(users) + 1)..Len(users') :
             users'[i].is_admin = (Normalize(users'[i].email) \in ADMIN_EMAILS)
      ]_vars

C9_Witness ==
    /\ last.route = "admin_panel"
    /\ last.result = "listing"
    /\ \E c \in Clients : session[c] # 0 /\ ~users[session[c]].is_admin

UniqueEmails ==
    \A i, j \in 1..Len(users) :
        i # j => Normalize(users[i].email) # Normalize(users[j].email)

\* C10: no two stored users have the same normalized email, and a register
\* request with an empty email, an empty password or an already registered
\* email creates no user and no profile and logs nobody in.
C10_UniqueEmails ==
    [][ /\ users' # users => UniqueEmails'
        /\ ( /\ last'.route = "register"
             /\ last'.step = "check"
             /\ \/ Normalize(last'.email) = ""
                \/ last'.password = ""
                \/ \E i \in 1..Len(users) :
                     users[i].email = Normalize(last'.email) )
           => /\ users' = users
              /\ profiles' = profiles
              /\ session' = session
              /\ req' = req ]_vars

C10_Witness ==
    /\ last.route = "register"
    /\ last.result = "IntegrityError"
    /\ Len(users) >= 1

====
